---- MODULE Spec2Model ----
(***************************************************************************)
(* The SchemaProcessor React component (src/frontend.js) together with the *)
(* backend-integrated processSchema handler (src/unnamed/part_000), which  *)
(* uses the same state cells and replaces the mocked handler.              *)
(*                                                                         *)
(* One step of the model is one task of the browser's event loop: an event *)
(* handler up to its first await, or the continuation that runs when an    *)
(* awaited promise settles.  Within one task the state assignments of the  *)
(* code are applied in program order.                                      *)
(*                                                                         *)
(* Optional JavaScript values (null / undefined) are sequences of length   *)
(* 0, present values are sequences of length 1.  Text typed by the user is *)
(* a sequence of one-character strings.  Floats are scaled integers:       *)
(* threshold in tenths, relevance_score in hundredths.                     *)
(***************************************************************************)
EXTENDS Integers, Sequences, FiniteSets, TLC

VARIABLES
    variant,        \* which processSchema the component was built with
    inputFile,      \* useState(null)        src/frontend.js:15
    query,          \* useState('')          src/frontend.js:16
    outputFormat,   \* useState('json')      src/frontend.js:17
    threshold,      \* useState(0.1)         src/frontend.js:18
    result,         \* useState(null)        src/frontend.js:19
    error,          \* useState(null)        src/frontend.js:20
    loading,        \* useState(false)       src/frontend.js:21
    pending,        \* processSchema calls suspended at an await
    nextId,         \* number of the next submission that passes validation
    fetchCalls,     \* number of fetch('/api/process-schema') calls issued
    dom,            \* blobs, object URLs and anchors of downloadResult
    last            \* history: the task that ran last, its argument, request and response

vars == << variant, inputFile, query, outputFormat, threshold, result, error,
           loading, pending, nextId, fetchCalls, dom, last >>

---------------------------------------------------------------------------
(* Bounds of the model *)

MaxQueryLen == 2
MaxSubmits == 2
MaxDownloads == 2

---------------------------------------------------------------------------
(* Values *)

Null == << >>
Some(x) == << x >>
Populated(x) == x # Null

Variants == { "fetch", "mock" }
Files == { "schema.json" }
Chars == { " ", "a" }
Formats == { "json", "yaml" }
Thresholds == { 1, 10 }

Texts == UNION { [1..n -> Chars] : n \in 0..MaxQueryLen }

ValidationMessage == "Please provide both a schema file and a query"
ErrorPrefix == "Error processing schema: "

Column(n, t, d) == [ name |-> n, type |-> t, description |-> d ]

mockResult ==
    << [ name |-> "orders",
         columns |-> << Column("order_id", "integer", "Unique order identifier"),
                        Column("user_id", "integer", "Reference to users table") >>,
         relevance_score |-> 85 ],
       [ name |-> "users",
         columns |-> << Column("user_id", "integer", "Unique user identifier"),
                        Column("username", "string", "User's display name") >>,
         relevance_score |-> 65 ] >>

(* Payloads and messages the backend may answer with. *)
ServerResults ==
    { << [ name |-> "products",
           columns |-> << Column("sku", "string", "Stock keeping unit") >>,
           relevance_score |-> 90 ] >>,
      << [ name |-> "users", columns |-> << >>, relevance_score |-> 40 ] >> }
ServerErrors == { "Schema could not be parsed" }

(* Response bodies { success, result?, error? }: the field the success     *)
(* flag selects is present.                                                *)
Bodies ==
    { [ success |-> TRUE, result |-> Some(r), error |-> Null ] : r \in ServerResults }
    \cup
    { [ success |-> FALSE, result |-> Null, error |-> Some(e) ] : e \in ServerErrors }

NoBody == [ success |-> FALSE, result |-> Null, error |-> Null ]

FetchFailures == { "Failed to fetch" }
JsonFailures == { "Unexpected end of JSON input" }

---------------------------------------------------------------------------
(* String.prototype.trim *)

RECURSIVE trimStart(_)
trimStart(s) ==
    IF s # << >> /\ Head(s) = " " THEN trimStart(Tail(s)) ELSE s

RECURSIVE trimEnd(_)
trimEnd(s) ==
    IF s # << >> /\ s[Len(s)] = " " THEN trimEnd(SubSeq(s, 1, Len(s) - 1)) ELSE s

trim(s) == trimEnd(trimStart(s))

---------------------------------------------------------------------------
(* History *)

NoRequest == [ id |-> 0, stage |-> "none", prior |-> Null ]

Did(op, arg, req, data) == [ op |-> op, arg |-> arg, req |-> req, data |-> data ]

---------------------------------------------------------------------------
(* Initial state: the useState initialisers, nothing in flight, an empty   *)
(* document body.                                                          *)

EmptyDom ==
    [ blobs |-> 0, urlsCreated |-> 0, urlsRevoked |-> 0, liveUrls |-> {},
      anchorsCreated |-> 0, body |-> {}, clicks |-> 0 ]

Init ==
    /\ variant \in Variants
    /\ inputFile = Null
    /\ query = << >>
    /\ outputFormat = "json"
    /\ threshold = 1
    /\ result = Null
    /\ error = Null
    /\ loading = FALSE
    /\ pending = {}
    /\ nextId = 1
    /\ fetchCalls = 0
    /\ dom = EmptyDom
    /\ last = Did("init", << >>, NoRequest, NoBody)

---------------------------------------------------------------------------
(* Form State Holder *)

(* event.target.files[0]: the first file of the list, undefined if empty *)
firstFile(files) == IF Len(files) > 0 THEN Some(files[1]) ELSE Null

fileChangeFile(file) == IF Populated(file) THEN file ELSE inputFile

fileChangeErrorAlways(file) == Null

fileChangeError(file) == IF Populated(file) THEN Null ELSE error

handleFileChange(files) ==
    LET file == firstFile(files) IN
    /\ inputFile' = fileChangeFile(file)
    /\ error' = fileChangeError(file)
    /\ last' = Did("handleFileChange", files, NoRequest, NoBody)
    /\ UNCHANGED << variant, query, outputFormat, threshold, result, loading,
                    pending, nextId, fetchCalls, dom >>

setQuery(text) ==
    /\ query' = text
    /\ last' = Did("setQuery", text, NoRequest, NoBody)
    /\ UNCHANGED << variant, inputFile, outputFormat, threshold, result, error,
                    loading, pending, nextId, fetchCalls, dom >>

setOutputFormat(fmt) ==
    /\ outputFormat' = fmt
    /\ last' = Did("setOutputFormat", << fmt >>, NoRequest, NoBody)
    /\ UNCHANGED << variant, inputFile, query, threshold, result, error,
                    loading, pending, nextId, fetchCalls, dom >>

setThreshold(value) ==
    /\ threshold' = value
    /\ last' = Did("setThreshold", << value >>, NoRequest, NoBody)
    /\ UNCHANGED << variant, inputFile, query, outputFormat, result, error,
                    loading, pending, nextId, fetchCalls, dom >>

---------------------------------------------------------------------------
(* Submission Controller *)

InvalidNoTrim == inputFile = Null \/ query = << >>

(* !inputFile || !query.trim() *)
Invalid == inputFile = Null \/ trim(query) = << >>

(* The await a call that passed validation suspends at first. *)
firstAwait == IF variant = "fetch" THEN "fetch" ELSE "timer"

suspendReplacing(p, r) == { r }

(* Every call owns its suspended continuation; none is cancelled. *)
suspend(p, r) == p \cup { r }

(* processSchema up to its first await *)
processSchema ==
    /\ last' = Did("processSchema", << >>, NoRequest, NoBody)
    /\ IF Invalid
       THEN /\ error' = Some(ValidationMessage)
            /\ UNCHANGED << loading, pending, nextId, fetchCalls >>
       ELSE /\ nextId <= MaxSubmits
            /\ loading' = TRUE
            /\ error' = Null
            /\ pending' = suspend(pending, [ id |-> nextId, stage |-> firstAwait,
                                             prior |-> result ])
            /\ nextId' = nextId + 1
            /\ fetchCalls' = IF variant = "fetch" THEN fetchCalls + 1 ELSE fetchCalls
    /\ UNCHANGED << variant, inputFile, query, outputFormat, threshold, result, dom >>

(* await fetch(...) resolves; the call suspends again at response.json() *)
fetchResolved(r) ==
    /\ r \in pending /\ r.stage = "fetch"
    /\ pending' = (pending \ { r }) \cup { [ r EXCEPT !.stage = "json" ] }
    /\ last' = Did("fetchResolved", << >>, r, NoBody)
    /\ UNCHANGED << variant, inputFile, query, outputFormat, threshold, result,
                    error, loading, nextId, fetchCalls, dom >>

catchKeepsLoading(msg) == [ error |-> Some(ErrorPrefix \o msg), loading |-> loading ]

(* catch (err) { setError(...) } finally { setLoading(false) } *)
catchFinally(msg) == [ error |-> Some(ErrorPrefix \o msg), loading |-> FALSE ]

rejected(r, op, msg) ==
    /\ error' = catchFinally(msg).error
    /\ loading' = catchFinally(msg).loading
    /\ pending' = pending \ { r }
    /\ last' = Did(op, << >>, r, NoBody)
    /\ UNCHANGED << variant, inputFile, query, outputFormat, threshold, result,
                    nextId, fetchCalls, dom >>

(* await fetch(...) rejects: a transport failure *)
fetchRejected(r, msg) ==
    /\ r \in pending /\ r.stage = "fetch"
    /\ rejected(r, "fetchRejected", msg)

(* await response.json() rejects: the body does not parse *)
jsonFailed(r, msg) ==
    /\ r \in pending /\ r.stage = "json"
    /\ rejected(r, "jsonFailed", msg)

onBodyDropsResult(data) ==
    [ result |-> result,
      error |-> IF data.success THEN error ELSE data.error ]

onBodyClearsResult(data) ==
    [ result |-> IF data.success THEN data.result ELSE Null,
      error |-> IF data.success THEN error ELSE data.error ]

onBodyDropsError(data) ==
    [ result |-> IF data.success THEN data.result ELSE result,
      error |-> error ]

(* if (data.success) setResult(data.result) else setError(data.error) *)
onBody(data) ==
    [ result |-> IF data.success THEN data.result ELSE result,
      error |-> IF data.success THEN error ELSE data.error ]

(* await response.json() resolves with the parsed body *)
jsonResolved(r, data) ==
    /\ r \in pending /\ r.stage = "json"
    /\ result' = onBody(data).result
    /\ error' = onBody(data).error
    /\ loading' = FALSE
    /\ pending' = pending \ { r }
    /\ last' = Did("jsonResolved", << >>, r, data)
    /\ UNCHANGED << variant, inputFile, query, outputFormat, threshold, nextId,
                    fetchCalls, dom >>

(* Timers of equal delay fire in the order they were set. *)
oldest(r) == \A o \in pending : o.stage = "timer" => r.id <= o.id

onTimerFails == [ result |-> result, error |-> Some(ErrorPrefix \o "timeout") ]

(* setResult(mockResult) *)
onTimer == [ result |-> Some(mockResult), error |-> error ]

(* the 1500 ms timer of the mocked handler fires *)
timerFired(r) ==
    /\ r \in pending /\ r.stage = "timer" /\ oldest(r)
    /\ result' = onTimer.result
    /\ error' = onTimer.error
    /\ loading' = FALSE
    /\ pending' = pending \ { r }
    /\ last' = Did("timerFired", << >>, r, NoBody)
    /\ UNCHANGED << variant, inputFile, query, outputFormat, threshold, nextId,
                    fetchCalls, dom >>

---------------------------------------------------------------------------
(* Download Exporter: the browser objects downloadResult touches.  Blobs,   *)
(* object URLs and anchors are numbered in order of creation.              *)

newBlob(d) == [ d EXCEPT !.blobs = @ + 1 ]

createObjectURL(d) ==
    [ d EXCEPT !.urlsCreated = @ + 1, !.liveUrls = @ \cup { d.urlsCreated + 1 } ]

createElement(d) == [ d EXCEPT !.anchorsCreated = @ + 1 ]

appendChild(d, a) == [ d EXCEPT !.body = @ \cup { a } ]

click(d, a) == [ d EXCEPT !.clicks = @ + 1 ]

removeChild(d, a) == [ d EXCEPT !.body = @ \ { a } ]

revokeNothing(d, u) == d

revokeObjectURL(d, u) ==
    [ d EXCEPT !.liveUrls = @ \ { u }, !.urlsRevoked = @ + 1 ]

(* the body of downloadResult after its guard *)
exported(d0) ==
    LET d1 == newBlob(d0)
        d2 == createObjectURL(d1)
        url == d2.urlsCreated
        d3 == createElement(d2)
        a == d3.anchorsCreated
        d4 == appendChild(d3, a)
        d5 == click(d4, a)
        d6 == removeChild(d5, a)
    IN  revokeObjectURL(d6, url)

downloadResult ==
    /\ last' = Did("downloadResult", << >>, NoRequest, NoBody)
    /\ IF ~Populated(result)
       THEN UNCHANGED dom
       ELSE /\ dom.urlsCreated < MaxDownloads
            /\ dom' = exported(dom)
    /\ UNCHANGED << variant, inputFile, query, outputFormat, threshold, result,
                    error, loading, pending, nextId, fetchCalls >>

---------------------------------------------------------------------------
(* The rendered controls *)

ProcessDisabledIgnoresLoading == inputFile = Null \/ trim(query) = << >>

(* disabled={loading || !inputFile || !query.trim()} *)
ProcessDisabled == loading \/ inputFile = Null \/ trim(query) = << >>

(* {result && ( ... <Button onClick={downloadResult}> ... )} *)
DownloadRendered == Populated(result)

---------------------------------------------------------------------------
(* Steps *)

FileLists == { << >> } \cup { << f >> : f \in Files }

HandleFileChange == \E files \in FileLists : handleFileChange(files)
SetQuery == \E text \in Texts : setQuery(text)
SetOutputFormat == \E fmt \in Formats : setOutputFormat(fmt)
SetThreshold == \E value \in Thresholds : setThreshold(value)
ProcessSchema == processSchema
FetchResolved == \E r \in pending : fetchResolved(r)
FetchRejected == \E r \in pending, msg \in FetchFailures : fetchRejected(r, msg)
JsonResolved == \E r \in pending, data \in Bodies : jsonResolved(r, data)
JsonFailed == \E r \in pending, msg \in JsonFailures : jsonFailed(r, msg)
TimerFired == \E r \in pending : timerFired(r)
DownloadResult == downloadResult
ClickProcess == ~ProcessDisabled /\ processSchema
ClickDownload == DownloadRendered /\ downloadResult

(* The handlers as functions: processSchema and downloadResult may be      *)
(* called in any state.                                                    *)
Next ==
    \/ HandleFileChange
    \/ SetQuery
    \/ SetOutputFormat
    \/ SetThreshold
    \/ ProcessSchema
    \/ FetchResolved
    \/ FetchRejected
    \/ JsonResolved
    \/ JsonFailed
    \/ TimerFired
    \/ DownloadResult

Spec == Init /\ [][Next]_vars

(* The component as rendered: processSchema and downloadResult run only    *)
(* from their buttons.                                                     *)
NextUI ==
    \/ HandleFileChange
    \/ SetQuery
    \/ SetOutputFormat
    \/ SetThreshold
    \/ ClickProcess
    \/ FetchResolved
    \/ FetchRejected
    \/ JsonResolved
    \/ JsonFailed
    \/ TimerFired
    \/ ClickDownload

SpecUI == Init /\ [][NextUI]_vars

---------------------------------------------------------------------------
(* Vocabulary of the properties *)

FileAbsentOrQueryBlank == inputFile = Null \/ trim(query) = << >>

Settled == { "fetchRejected", "jsonResolved", "jsonFailed", "timerFired" }

(* a submission has just completed: its response or exception was handled, *)
(* or it was turned down by validation                                     *)
Completed ==
    \/ last.op \in Settled
    \/ last.op = "processSchema" /\ FileAbsentOrQueryBlank

ExceptionMessages ==
    { Some(ErrorPrefix \o m) : m \in FetchFailures \cup JsonFailures \cup { "timeout" } }

---------------------------------------------------------------------------
(* C1: a processSchema call with the file absent or the trimmed query empty *)
(* issues no request, sets error to the validation message, and leaves      *)
(* loading and result as they were.                                         *)
C1_ValidationFailure ==
    [][ (last'.op = "processSchema" /\ FileAbsentOrQueryBlank)
            => /\ error' = Some(ValidationMessage)
               /\ fetchCalls' = fetchCalls
               /\ pending' = pending
               /\ loading' = loading
               /\ result' = result ]_vars

C1_Witness ==
    /\ last.op = "processSchema"
    /\ Populated(inputFile) /\ query # << >> /\ trim(query) = << >>
    /\ error = Some(ValidationMessage)
    /\ ~loading /\ fetchCalls = 0 /\ pending = {}

(* C2: when a submission settles with a body whose success is true, result  *)
(* is the body's result and error is null.                                  *)
C2_SuccessStoresResult ==
    (last.op = "jsonResolved" /\ last.data.success)
        => (result = last.data.result /\ error = Null)

C2_Witness ==
    /\ last.op = "jsonResolved" /\ last.data.success
    /\ Populated(last.req.prior) /\ last.req.prior # last.data.result
    /\ result = last.data.result /\ error = Null

(* C3: when a submission settles with a body whose success is false, error  *)
(* is the body's error and result is what it was when the submission began. *)
C3_FailureKeepsResult ==
    (last.op = "jsonResolved" /\ ~last.data.success)
        => (error = last.data.error /\ result = last.req.prior)

C3_Witness ==
    /\ last.op = "jsonResolved" /\ ~last.data.success
    /\ Populated(result) /\ result = last.req.prior
    /\ error = last.data.error

C5_LoadingCleared ==
    [][ /\ (last'.op = "processSchema" /\ ~FileAbsentOrQueryBlank) => loading'
        /\ (last'.op \in Settled) => ~loading' ]_vars

C5_Witness ==
    /\ last.op \in { "fetchRejected", "jsonFailed" }
    /\ last.req.id = 2
    /\ ~loading /\ error \in ExceptionMessages

(* C6: in the mock variant a submission ends, when its timer fires, with    *)
(* result the two-entity payload (orders 0.85, users 0.65) and error null,  *)
(* and error is never an "Error processing schema: " message.               *)
C6_MockPayload ==
    variant = "mock" =>
        /\ error \notin ExceptionMessages
        /\ last.op = "timerFired" =>
              /\ error = Null
              /\ Populated(result)
              /\ Len(result[1]) = 2
              /\ result[1][1].name = "orders" /\ result[1][1].relevance_score = 85
              /\ result[1][2].name = "users" /\ result[1][2].relevance_score = 65
              /\ result = Some(mockResult)

C6_Witness ==
    /\ variant = "mock" /\ last.op = "timerFired" /\ last.req.id = 2
    /\ result = Some(mockResult) /\ error = Null /\ ~loading

(* C7: downloadResult with result absent touches no browser object; with    *)
(* result present it creates one blob, one object URL and one anchor,       *)
(* clicks once, and on return the anchor is out of the body and the URL is  *)
(* revoked once, so none stays outstanding.                                 *)
C7_DownloadReleases ==
    [][ /\ (last'.op = "downloadResult" /\ ~Populated(result)) => dom' = dom
        /\ (last'.op = "downloadResult" /\ Populated(result)) =>
              /\ dom'.blobs = dom.blobs + 1
              /\ dom'.urlsCreated = dom.urlsCreated + 1
              /\ dom'.anchorsCreated = dom.anchorsCreated + 1
              /\ dom'.clicks = dom.clicks + 1
              /\ dom'.urlsRevoked = dom.urlsRevoked + 1
        /\ dom'.liveUrls = {} /\ dom'.body = {}
        /\ dom'.urlsRevoked = dom'.urlsCreated ]_vars

C7_Witness ==
    /\ last.op = "downloadResult" /\ Populated(result)
    /\ dom.urlsCreated = 2 /\ dom.urlsRevoked = 2 /\ dom.anchorsCreated = 2
    /\ dom.liveUrls = {} /\ dom.body = {}

(* C8: a processSchema call that passes validation adds its request to the  *)
(* ones in flight without cancelling any; whichever request settles writes  *)
(* its own outcome and sets loading false, whatever its number and whatever *)
(* else is in flight, so the request that settles last decides.             *)
C8_LastSettlementWins ==
    [][ /\ (last'.op = "processSchema" /\ ~FileAbsentOrQueryBlank) =>
              /\ pending \subseteq pending'
              /\ Cardinality(pending') = Cardinality(pending) + 1
        /\ (last'.op \in Settled) =>
              /\ last'.req \in pending
              /\ pending' = pending \ { last'.req }
              /\ ~loading'
        /\ (last'.op = "jsonResolved" /\ last'.data.success) =>
              result' = last'.data.result
        /\ (last'.op = "jsonResolved" /\ ~last'.data.success) =>
              error' = last'.data.error
        /\ (last'.op \in { "fetchRejected", "jsonFailed" }) =>
              error' \in ExceptionMessages ]_vars

C8_Witness ==
    /\ last.op = "jsonResolved" /\ last.data.success
    /\ last.req.id = 1 /\ nextId > 2
    /\ \A r \in pending : r.id # 2
    /\ result = last.data.result

(* C9: handleFileChange with a file sets inputFile and resets error, and    *)
(* changes nothing else; without a file it changes nothing; setQuery,       *)
(* setOutputFormat and setThreshold leave error, result and loading alone.  *)
C9_FormFrame ==
    [][ /\ (last'.op = "handleFileChange" /\ last'.arg # << >>) =>
              /\ inputFile' = Some(last'.arg[1])
              /\ error' = Null
              /\ UNCHANGED << query, outputFormat, threshold, result, loading >>
        /\ (last'.op = "handleFileChange" /\ last'.arg = << >>) =>
              UNCHANGED << inputFile, query, outputFormat, threshold, result,
                           error, loading >>
        /\ (last'.op \in { "setQuery", "setOutputFormat", "setThreshold" }) =>
              UNCHANGED << error, result, loading >> ]_vars

C9_Witness ==
    /\ last.op = "handleFileChange" /\ last.arg = << >>
    /\ Populated(error) /\ Populated(result)

(* C10: with submissions started only by the Process button, at most one    *)
(* request is in flight, loading is true exactly while it is, and error is  *)
(* null while loading is true.                                              *)
C10_SingleFlight ==
    /\ Cardinality(pending) <= 1
    /\ loading <=> pending # {}
    /\ loading => error = Null

C10_Witness ==
    /\ loading /\ Cardinality(pending) = 1
    /\ \E r \in pending : r.id = 2 /\ r.stage = "json"
    /\ Populated(result) /\ error = Null

====
